---- MODULE Spec2Model ----
(***************************************************************************)
(* Lesson unlock and reminder scheduler of the leadership-training         *)
(* backend: app/services/scheduler_service.py (unlock tick, reminder       *)
(* tick), app/services/user_lesson_service.py (completion, manual unlock,  *)
(* due-unlock) and app/services/user_journey_service.py (materialising a   *)
(* category's lessons).                                                    *)
(*                                                                         *)
(* Time is the number of whole hours since a Monday 00:00 UTC.  Stored     *)
(* timestamps keep the UTC date only (the hour index divided by 24): the   *)
(* code reads a stored timestamp only for being set and for its date.      *)
(***************************************************************************)
EXTENDS Integers, Sequences, FiniteSets, TLC

VARIABLES
    now,          \* the wall clock: hours since Monday 00:00 UTC
    preferences,  \* table user_preferences, one row per user
    journeys,     \* table user_journeys, at most one row per user
    assessment_results, \* table assessment_results, one row per user
    user_lessons, \* table user_lessons: sequence of rows, the index is the id
    sessions,     \* the database sessions of the running unlock jobs
    report        \* what the scheduler job that produced this state reported

vars == <<now, preferences, journeys, assessment_results, user_lessons, sessions, report>>

----------------------------------------------------------------------------
(* Bounds of the model *)

\* the last hour of the hourly clock: Tuesday 00:00 UTC, so that the local days
\* Sunday (ET before 05:00 UTC), Monday and Tuesday all occur
MaxNow == 24

\* the most rows the table user_lessons holds: a journey is not started or
\* continued beyond it
MaxLessons == 10

----------------------------------------------------------------------------
(* Program constants *)

HoursPerDay == 24
DaysPerWeek == 7
max_instances == 3
ReminderCronHour == 9
MaxPoints == 25

None == "None"

\* a nullable timestamp column that is not set
NoTime == -1

LOCKED == "locked"
AVAILABLE == "available"
COMPLETED == "completed"

ACTIVE == "active"
JOURNEY_COMPLETED == "completed"

TimezoneCodes == <<"ET", "CT", "MT", "PT", "BDT">>

TIMEZONE_OFFSETS ==
    [tz \in {"ET", "CT", "MT", "PT", "BDT"} |->
        CASE tz = "ET" -> -5
          [] tz = "CT" -> -6
          [] tz = "MT" -> -7
          [] tz = "PT" -> -8
          [] tz = "BDT" -> 6]

day_mapping == <<"mon", "tue", "wed", "thu", "fri", "sat", "sun">>

----------------------------------------------------------------------------
(* The users and the curriculum (content rows, read-only for the core) *)

Users == {1, 2}

\* table weeks; the index is Week.id
Weeks ==
    << [topic |-> "Clarity", week_number |-> 1],
       [topic |-> "Clarity", week_number |-> 2],
       [topic |-> "Courage", week_number |-> 1] >>

\* table daily_lessons; the index is DailyLesson.id
DailyLessons ==
    << [week_id |-> 1, day_number |-> 1],
       [week_id |-> 1, day_number |-> 2],
       [week_id |-> 2, day_number |-> 1],
       [week_id |-> 2, day_number |-> 2],
       [week_id |-> 3, day_number |-> 1],
       [week_id |-> 3, day_number |-> 2] >>

\* AssessmentResult.growth_focus of each user's assessment
growth_focus == [u \in Users |-> IF u = 1 THEN "clarity" ELSE "courage"]

\* str.capitalize() on the category names
capitalize(s) ==
    CASE s \in {"clarity", "Clarity"} -> "Clarity"
      [] s \in {"courage", "Courage"} -> "Courage"
      [] OTHER -> s

\* str.lower(), as ILIKE compares
lower(s) ==
    CASE s \in {"clarity", "Clarity"} -> "clarity"
      [] s \in {"courage", "Courage"} -> "courage"
      [] OTHER -> s

\* column ILIKE pattern, for a pattern without wildcards
ilike(column, pattern) == lower(column) = lower(pattern)

----------------------------------------------------------------------------
(* Strings of the form HH:MM, as sequences of characters *)

Digits == <<"0", "1", "2", "3", "4", "5", "6", "7", "8", "9">>

DigitValue(c) == (CHOOSE i \in 1..10 : Digits[i] = c) - 1

\* f"{hour:02d}:"
hour_prefix(hour) == <<Digits[(hour \div 10) + 1], Digits[(hour % 10) + 1], ":">>

\* column LIKE 'prefix%'
like_prefix(column, prefix) ==
    /\ Len(column) >= Len(prefix)
    /\ SubSeq(column, 1, Len(prefix)) = prefix

\* s.split(":")[0]
RECURSIVE split_head(_)
split_head(s) ==
    IF s = <<>> \/ Head(s) = ":" THEN <<>> ELSE <<Head(s)>> \o split_head(Tail(s))

\* int(digits)
RECURSIVE int(_)
int(ds) ==
    IF ds = <<>> THEN 0 ELSE 10 * int(SubSeq(ds, 1, Len(ds) - 1)) + DigitValue(ds[Len(ds)])

\* int(time.split(":")[0])
hour_of(time) == int(split_head(time))

----------------------------------------------------------------------------
(* Locale: datetime.now(timezone(timedelta(hours=offset))) *)

\* TIMEZONE_OFFSETS.get(tz_code, -5)
offset_hours(tz_code) ==
    IF tz_code \in DOMAIN TIMEZONE_OFFSETS THEN TIMEZONE_OFFSETS[tz_code] ELSE -5

\* the local instant, shifted by a week so that it is never negative
local_instant(t, tz_code) == t + offset_hours(tz_code) + HoursPerDay * DaysPerWeek

get_current_hour_in_timezone(t, tz_code) == local_instant(t, tz_code) % HoursPerDay

\* the weekday taken from the UTC instant instead of the user's local instant
current_day_in_timezone_utc(t, tz_code) ==
    day_mapping[((t \div HoursPerDay) % DaysPerWeek) + 1]

\* day_mapping[user_now.weekday()]
current_day_in_timezone(t, tz_code) ==
    day_mapping[((local_instant(t, tz_code) \div HoursPerDay) % DaysPerWeek) + 1]

\* .date() of a timestamp taken at instant t (UTC)
date_of(t) == t \div HoursPerDay

----------------------------------------------------------------------------
(* Queries on user_lessons *)

RowIds(rows) == DOMAIN rows

week_of(row) == Weeks[DailyLessons[row.daily_lesson_id].week_id]

\* ORDER BY Week.week_number, DailyLesson.day_number (ties in id order)
order_key(rows, i) ==
    <<week_of(rows[i]).week_number, DailyLessons[rows[i].daily_lesson_id].day_number, i>>

key_less(a, b) ==
    \/ a[1] < b[1]
    \/ a[1] = b[1] /\ a[2] < b[2]
    \/ a[1] = b[1] /\ a[2] = b[2] /\ a[3] < b[3]

RECURSIVE sorted_ids(_, _)
sorted_ids(rows, ids) ==
    IF ids = {} THEN <<>>
    ELSE LET first == CHOOSE i \in ids :
                        \A j \in ids \ {i} : key_less(order_key(rows, i), order_key(rows, j))
         IN <<first>> \o sorted_ids(rows, ids \ {first})

\* query(UserLesson).join(DailyLesson).join(Week).filter(user_id, Week.topic.ilike(category))
\*   .order_by(Week.week_number, DailyLesson.day_number)
lessons_of_category(rows, user_id, category) ==
    sorted_ids(rows, {i \in RowIds(rows) :
                        /\ rows[i].user_id = user_id
                        /\ ilike(week_of(rows[i]).topic, category)})

----------------------------------------------------------------------------
(* SchedulerService: the unlock job *)

\* a set of ids as the list a query returns it, in ascending order
RECURSIVE ascending(_)
ascending(S) ==
    IF S = {} THEN <<>>
    ELSE LET m == CHOOSE x \in S : \A y \in S : x <= y
         IN <<m>> \o ascending(S \ {m})

\* target_hours = set(timezone_hours.values())
unlock_target_hours(t) ==
    {get_current_hour_in_timezone(t, TimezoneCodes[k]) : k \in DOMAIN TimezoneCodes}

\* query(UserPreferences).filter(or_(lesson_time LIKE 'HH:%' for HH in target_hours))
unlock_candidates(t, prefs) ==
    {u \in DOMAIN prefs :
        \E hour \in unlock_target_hours(t) :
            like_prefix(prefs[u].lesson_time, hour_prefix(hour))}

\* the two checks of the loop over the candidates
day_hour_matched(t, p) ==
    /\ current_day_in_timezone(t, p.timezone) \in p.active_days
    /\ hour_of(p.lesson_time) = get_current_hour_in_timezone(t, p.timezone)

\* the users the job processes, in ascending id order
get_users_for_current_hour(t, prefs, rows) ==
    LET matched_users == {u \in unlock_candidates(t, prefs) : day_hour_matched(t, prefs[u])}
        users_with_locked ==
            {u \in matched_users :
                \E i \in RowIds(rows) : rows[i].user_id = u /\ rows[i].status = LOCKED}
    IN ascending(users_with_locked)

\* the scan for the first LOCKED lesson; 0 stands for None
RECURSIVE first_locked_ready(_, _, _)
first_locked_ready(rows, lessons, i) ==
    IF i > Len(lessons) THEN 0
    ELSE IF rows[lessons[i]].status = LOCKED
         THEN IF i > 1 /\ rows[lessons[i - 1]].completed_at = NoTime
              THEN 0
              ELSE lessons[i]
         ELSE first_locked_ready(rows, lessons, i + 1)

get_next_lesson_to_unlock(rows, js, user_id) ==
    LET user_journey == js[user_id]
    IN IF \/ ~user_journey.exists
          \/ user_journey.status # ACTIVE
          \/ user_journey.current_category = None
       THEN 0
       ELSE first_locked_ready(
                rows, lessons_of_category(rows, user_id, user_journey.current_category), 1)

IdleSession == [pc |-> "idle", todo |-> <<>>, dirty |-> {}]

\* the state was not produced by the end of a scheduler job
NoReport == [job |-> "none", unlocked |-> {}, calls |-> <<>>, count |-> 0, error |-> "none"]

\* "Unlocked lesson {id} for user {user_id}" and the returned unlocked_count
UnlockReport(dirty) ==
    [job |-> "unlock_due_lessons", unlocked |-> {d.id : d \in dirty}, calls |-> <<>>,
     count |-> Cardinality({d.id : d \in dirty}), error |-> "none"]

\* unlock_due_lessons, up to the loop: the job takes the first free instance slot,
\* opens its session and selects its users
UnlockJobBegin(s) ==
    /\ sessions[s].pc = "idle"
    /\ \A r \in DOMAIN sessions : r < s => sessions[r].pc # "idle"
    /\ sessions' = [sessions EXCEPT ![s] =
          [pc |-> "running",
           todo |-> get_users_for_current_hour(now, preferences, user_lessons),
           dirty |-> {}]]
    /\ report' = NoReport
    /\ UNCHANGED <<now, preferences, assessment_results, journeys, user_lessons>>

\* one iteration of the loop: the session loads the user's lessons and marks the
\* next one AVAILABLE in memory (autoflush is off: nothing is written yet)
UnlockJobUser(s) ==
    /\ sessions[s].pc = "running"
    /\ sessions[s].todo # <<>>
    /\ LET user_id == Head(sessions[s].todo)
           next_lesson == get_next_lesson_to_unlock(user_lessons, journeys, user_id)
       IN sessions' = [sessions EXCEPT ![s] =
             [pc |-> "running",
              todo |-> Tail(sessions[s].todo),
              dirty |-> IF next_lesson = 0 THEN sessions[s].dirty
                        ELSE sessions[s].dirty \cup
                               {[id |-> next_lesson, unlocked_at |-> date_of(now)]}]]
    /\ report' = NoReport
    /\ UNCHANGED <<now, preferences, assessment_results, journeys, user_lessons>>

\* a flush that stamps completed_at where it should stamp unlocked_at
flush_wrong_column(rows, dirty, t) ==
    [i \in RowIds(rows) |->
        IF \E d \in dirty : d.id = i
        THEN [rows[i] EXCEPT !.status = AVAILABLE,
                             !.completed_at = (CHOOSE d \in dirty : d.id = i).unlocked_at,
                             !.updated_at = date_of(t)]
        ELSE rows[i]]

\* the flush of db.commit(): UPDATE user_lessons SET status, unlocked_at,
\* updated_at (onupdate) WHERE id = :id
flush(rows, dirty, t) ==
    [i \in RowIds(rows) |->
        IF \E d \in dirty : d.id = i
        THEN [rows[i] EXCEPT !.status = AVAILABLE,
                             !.unlocked_at = (CHOOSE d \in dirty : d.id = i).unlocked_at,
                             !.updated_at = date_of(t)]
        ELSE rows[i]]

\* self.db.commit() after the loop
UnlockJobCommit(s) ==
    /\ sessions[s].pc = "running"
    /\ sessions[s].todo = <<>>
    /\ user_lessons' = flush(user_lessons, sessions[s].dirty, now)
    /\ sessions' = [sessions EXCEPT ![s] = IdleSession]
    /\ report' = UnlockReport(sessions[s].dirty)
    /\ UNCHANGED <<now, preferences, assessment_results, journeys>>

\* a rollback that writes the pending changes instead of discarding them
rollback_flushed(rows, dirty) ==
    [i \in RowIds(rows) |->
        IF \E d \in dirty : d.id = i
        THEN [rows[i] EXCEPT !.status = AVAILABLE,
                             !.unlocked_at = (CHOOSE d \in dirty : d.id = i).unlocked_at,
                             !.updated_at = (CHOOSE d \in dirty : d.id = i).unlocked_at]
        ELSE rows[i]]

\* self.db.rollback(): the pending changes of the session are discarded
rollback(rows, dirty) == rows

\* an exception in the loop or in db.commit(): except Exception: rollback, raise;
\* unlocked_count is lost with the exception
UnlockJobRollback(s) ==
    /\ sessions[s].pc = "running"
    /\ user_lessons' = rollback(user_lessons, sessions[s].dirty)
    /\ sessions' = [sessions EXCEPT ![s] = IdleSession]
    /\ report' = [job |-> "unlock_due_lessons", unlocked |-> {}, calls |-> <<>>,
                  count |-> Cardinality(sessions[s].dirty), error |-> "exception"]
    /\ UNCHANGED <<now, preferences, assessment_results, journeys>>

\* the rows one job marks when nothing else runs between its reads
RECURSIVE unlock_plan(_, _, _, _)
unlock_plan(t, rows, js, todo) ==
    IF todo = <<>> THEN {}
    ELSE LET next_lesson == get_next_lesson_to_unlock(rows, js, Head(todo))
         IN (IF next_lesson = 0 THEN {}
             ELSE {[id |-> next_lesson, unlocked_at |-> date_of(t)]})
            \cup unlock_plan(t, rows, js, Tail(todo))

\* unlock_due_lessons run from start to commit with no other operation in between
unlock_due_lessons(t, prefs, js, rows) ==
    flush(rows, unlock_plan(t, rows, js, get_users_for_current_hour(t, prefs, rows)), t)

----------------------------------------------------------------------------
(* UserLessonService *)

\* the smallest element of a non-empty set of ids, 0 for the empty set: .first()
first(S) == IF S = {} THEN 0 ELSE CHOOSE x \in S : \A y \in S : x <= y

\* query(UserLesson).filter(user_id, daily_lesson_id).first()
user_lesson_for(rows, user_id, daily_lesson_id) ==
    first({i \in RowIds(rows) :
             rows[i].user_id = user_id /\ rows[i].daily_lesson_id = daily_lesson_id})

\* _find_next_lesson: the next day of the same week, else day 1 of the week with
\* the next Week.id; 0 stands for None
find_next_lesson(rows, current) ==
    LET daily_lesson == DailyLessons[rows[current].daily_lesson_id]
        next_daily_lesson ==
            first({d \in DOMAIN DailyLessons :
                     /\ DailyLessons[d].week_id = daily_lesson.week_id
                     /\ DailyLessons[d].day_number = daily_lesson.day_number + 1})
        next_week == first({w \in DOMAIN Weeks : w > daily_lesson.week_id})
        first_lesson_next_week ==
            first({d \in DOMAIN DailyLessons :
                     DailyLessons[d].week_id = next_week /\ DailyLessons[d].day_number = 1})
    IN IF next_daily_lesson # 0
       THEN user_lesson_for(rows, rows[current].user_id, next_daily_lesson)
       ELSE IF next_week # 0 /\ first_lesson_next_week # 0
            THEN user_lesson_for(rows, rows[current].user_id, first_lesson_next_week)
            ELSE 0

\* _unlock_next_lesson_if_ready, on the rows with the completion already applied
unlock_next_lesson_if_ready(rows, completed_lesson, t) ==
    LET next_lesson == find_next_lesson(rows, completed_lesson)
    IN IF /\ rows[completed_lesson].days_between_lessons = 0
          /\ next_lesson # 0
          /\ rows[next_lesson].status = LOCKED
       THEN [rows EXCEPT ![next_lesson].status = AVAILABLE,
                         ![next_lesson].unlocked_at = date_of(t),
                         ![next_lesson].updated_at = date_of(t)]
       ELSE rows

\* get_user_lesson: the id of the user's row, 0 where it raises the 404
get_user_lesson(rows, user_id, lesson_id) ==
    IF lesson_id \in RowIds(rows) /\ rows[lesson_id].user_id = user_id THEN lesson_id ELSE 0

\* complete_lesson(user_id, lesson_id, completion_data): the APIException it
\* raises, if any, and the rows after it
complete_lesson(rows, user_id, lesson_id, points_earned, t) ==
    IF get_user_lesson(rows, user_id, lesson_id) = 0
    THEN [error |-> "404 Lesson not found", rows |-> rows]
    ELSE IF rows[lesson_id].status = COMPLETED
    THEN [error |-> "400 Lesson is already completed", rows |-> rows]
    ELSE IF points_earned < 0 \/ points_earned > MaxPoints
    THEN [error |-> "400 Points earned must be between 0 and 25", rows |-> rows]
    ELSE [error |-> "none",
          rows |-> unlock_next_lesson_if_ready(
                      [rows EXCEPT ![lesson_id].status = COMPLETED,
                                   ![lesson_id].points_earned = points_earned,
                                   ![lesson_id].completed_at = date_of(t),
                                   ![lesson_id].updated_at = date_of(t)],
                      lesson_id, t)]

\* complete_lesson with full points, when it raises nothing
CompleteLesson(user_id, lesson_id) ==
    /\ LET result == complete_lesson(user_lessons, user_id, lesson_id, MaxPoints, now)
       IN /\ result.error = "none"
          /\ user_lessons' = result.rows
    /\ report' = NoReport
    /\ UNCHANGED <<now, preferences, assessment_results, journeys, sessions>>

\* unlock_lesson_manually without the check of the status
unlock_lesson_manually_any_status(rows, user_id, lesson_id, t) ==
    IF get_user_lesson(rows, user_id, lesson_id) = 0
    THEN [error |-> "404 Lesson not found", rows |-> rows]
    ELSE [error |-> "none",
          rows |-> [rows EXCEPT ![lesson_id].status = AVAILABLE,
                                ![lesson_id].unlocked_at = date_of(t),
                                ![lesson_id].updated_at = date_of(t)]]

\* unlock_lesson_manually(user_id, lesson_id): the APIException it raises, if any,
\* and the rows after it
unlock_lesson_manually(rows, user_id, lesson_id, t) ==
    IF get_user_lesson(rows, user_id, lesson_id) = 0
    THEN [error |-> "404 Lesson not found", rows |-> rows]
    ELSE IF rows[lesson_id].status # LOCKED
    THEN [error |-> "400 Lesson is not locked or already unlocked", rows |-> rows]
    ELSE [error |-> "none",
          rows |-> [rows EXCEPT ![lesson_id].status = AVAILABLE,
                                ![lesson_id].unlocked_at = date_of(t),
                                ![lesson_id].updated_at = date_of(t)]]

\* unlock_lesson_manually, when it raises nothing
UnlockLessonManually(user_id, lesson_id) ==
    /\ LET result == unlock_lesson_manually(user_lessons, user_id, lesson_id, now)
       IN /\ result.error = "none"
          /\ user_lessons' = result.rows
    /\ report' = NoReport
    /\ UNCHANGED <<now, preferences, assessment_results, journeys, sessions>>

\* update_lesson_settings(user_id, lesson_id, days_between_lessons): the
\* APIException it raises, if any, and the rows after it
update_lesson_settings(rows, user_id, lesson_id, days_between_lessons, t) ==
    IF get_user_lesson(rows, user_id, lesson_id) = 0
    THEN [error |-> "404 Lesson not found", rows |-> rows]
    ELSE IF days_between_lessons < 0 \/ days_between_lessons > DaysPerWeek
    THEN [error |-> "400 Days between lessons must be between 0 and 7", rows |-> rows]
    ELSE [error |-> "none",
          \* an attribute set to the value it has is no change: no UPDATE is sent
          rows |-> IF rows[lesson_id].days_between_lessons = days_between_lessons
                   THEN rows
                   ELSE [rows EXCEPT ![lesson_id].days_between_lessons = days_between_lessons,
                                     ![lesson_id].updated_at = date_of(t)]]

\* get_lessons_due_for_unlock
get_lessons_due_for_unlock(rows, t) ==
    {next_lesson \in RowIds(rows) :
        \E lesson \in RowIds(rows) :
            /\ rows[lesson].status = COMPLETED
            /\ rows[lesson].completed_at # NoTime
            /\ rows[lesson].completed_at + rows[lesson].days_between_lessons <= date_of(t)
            /\ find_next_lesson(rows, lesson) = next_lesson
            /\ rows[next_lesson].status = LOCKED}

\* UserLessonService.unlock_due_lessons: the rows after it
unlock_lessons_due(rows, t) ==
    [i \in RowIds(rows) |->
        IF i \in get_lessons_due_for_unlock(rows, t)
        THEN [rows[i] EXCEPT !.status = AVAILABLE, !.unlocked_at = date_of(t),
                             !.updated_at = date_of(t)]
        ELSE rows[i]]

\* UserLessonService.unlock_due_lessons (POST /user-lessons/unlock-due)
UnlockDue ==
    /\ user_lessons' = unlock_lessons_due(user_lessons, now)
    /\ report' = NoReport
    /\ UNCHANGED <<now, preferences, assessment_results, journeys, sessions>>

\* what a request to the API answers: the operation and the APIException raised
Response(operation, error) ==
    [job |-> operation, unlocked |-> {}, calls |-> <<>>, count |-> 0, error |-> error]

\* POST /user-lessons/{lesson_id}/complete
CompleteLessonRequest(user_id, lesson_id, points_earned) ==
    /\ LET result == complete_lesson(user_lessons, user_id, lesson_id, points_earned, now)
       IN /\ user_lessons' = result.rows
          /\ report' = Response("complete_lesson", result.error)
    /\ UNCHANGED <<now, preferences, assessment_results, journeys, sessions>>

\* PUT /user-lessons/{lesson_id}/unlock
UnlockLessonManuallyRequest(user_id, lesson_id) ==
    /\ LET result == unlock_lesson_manually(user_lessons, user_id, lesson_id, now)
       IN /\ user_lessons' = result.rows
          /\ report' = Response("unlock_lesson_manually", result.error)
    /\ UNCHANGED <<now, preferences, assessment_results, journeys, sessions>>

\* PUT /user-lessons/{lesson_id}/settings: the endpoint checks the range before
\* it calls the service
UpdateLessonSettingsRequest(user_id, lesson_id, days_between_lessons) ==
    /\ LET result ==
               IF days_between_lessons < 0 \/ days_between_lessons > DaysPerWeek
               THEN [error |-> "400 Days between lessons must be between 0 and 7",
                     rows |-> user_lessons]
               ELSE update_lesson_settings(user_lessons, user_id, lesson_id,
                                           days_between_lessons, now)
       IN /\ user_lessons' = result.rows
          /\ report' = Response("update_lesson_settings", result.error)
    /\ UNCHANGED <<now, preferences, assessment_results, journeys, sessions>>

\* POST /user-lessons/unlock-due
UnlockDueRequest ==
    /\ user_lessons' = unlock_lessons_due(user_lessons, now)
    /\ report' = Response("unlock_due", "none")
    /\ UNCHANGED <<now, preferences, assessment_results, journeys, sessions>>

----------------------------------------------------------------------------
(* UserJourneyService *)

NoJourney ==
    [exists |-> FALSE, status |-> None, current_category |-> None,
     categories_completed |-> <<>>]

\* complete_category_and_move_to_next: the categories sorted by the scores of
\* the user's assessment, the lowest (the growth focus) first
categories(user_id) ==
    IF capitalize(growth_focus[user_id]) = "Clarity"
    THEN <<"Clarity", "Courage">> ELSE <<"Courage", "Clarity">>

\* the daily lessons of the category's weeks, by week_number then day_number
RECURSIVE ordered_daily_lessons(_)
ordered_daily_lessons(todo) ==
    IF todo = {} THEN <<>>
    ELSE LET d == CHOOSE x \in todo :
                    \A y \in todo \ {x} :
                        key_less(<<Weeks[DailyLessons[x].week_id].week_number,
                                   DailyLessons[x].day_number, x>>,
                                 <<Weeks[DailyLessons[y].week_id].week_number,
                                   DailyLessons[y].day_number, y>>)
         IN <<d>> \o ordered_daily_lessons(todo \ {d})

\* _initialize_lessons_for_category that opens the first lesson of every week
initialize_lessons_every_week(user_id, category, t) ==
    LET ds == ordered_daily_lessons(
                 {d \in DOMAIN DailyLessons : ilike(Weeks[DailyLessons[d].week_id].topic, category)})
        is_first_of_week(k) ==
            k = 1 \/ DailyLessons[ds[k - 1]].week_id # DailyLessons[ds[k]].week_id
        status(k) == IF is_first_of_week(k) THEN AVAILABLE ELSE LOCKED
    IN [k \in DOMAIN ds |->
          [user_id |-> user_id,
           daily_lesson_id |-> ds[k],
           status |-> status(k),
           unlocked_at |-> IF status(k) = AVAILABLE THEN date_of(t) ELSE NoTime,
           completed_at |-> NoTime,
           points_earned |-> 0,
           days_between_lessons |-> 1,
           updated_at |-> NoTime]]

\* _initialize_lessons_for_category: the rows it adds
initialize_lessons_for_category(user_id, category, t) ==
    LET ds == ordered_daily_lessons(
                 {d \in DOMAIN DailyLessons : ilike(Weeks[DailyLessons[d].week_id].topic, category)})
        \* index == 0 of the week's daily lessons
        is_first_of_week(k) ==
            k = 1 \/ DailyLessons[ds[k - 1]].week_id # DailyLessons[ds[k]].week_id
        status(k) ==
            IF Weeks[DailyLessons[ds[k]].week_id].week_number = 1 /\ is_first_of_week(k)
            THEN AVAILABLE ELSE LOCKED
    IN [k \in DOMAIN ds |->
          [user_id |-> user_id,
           daily_lesson_id |-> ds[k],
           status |-> status(k),
           unlocked_at |-> IF status(k) = AVAILABLE THEN date_of(t) ELSE NoTime,
           completed_at |-> NoTime,
           points_earned |-> 0,
           days_between_lessons |-> 1,
           updated_at |-> NoTime]]

\* _update_journey_to_next_category: the lessons after it
update_journey_lessons(rows, user_id, next_category, t) ==
    rows \o initialize_lessons_for_category(user_id, next_category, t)

\* start_or_update_journey, when it raises nothing: create_user_journey for a
\* user without a journey, _update_journey_to_next_category for a journey whose
\* category is completed
StartJourney(user_id) ==
    /\ IF ~journeys[user_id].exists
       THEN /\ journeys' = [journeys EXCEPT ![user_id] =
                  [exists |-> TRUE, status |-> ACTIVE,
                   current_category |-> capitalize(assessment_results[user_id].growth_focus),
                   categories_completed |-> <<>>]]
            /\ user_lessons' = user_lessons \o
                  initialize_lessons_for_category(
                      user_id, capitalize(assessment_results[user_id].growth_focus), now)
       ELSE /\ journeys[user_id].current_category = None
            /\ journeys[user_id].status = JOURNEY_COMPLETED
            /\ LET next_category == assessment_results[user_id].growth_focus
               IN /\ journeys' = [journeys EXCEPT ![user_id].current_category = next_category,
                                                  ![user_id].status = ACTIVE]
                  /\ user_lessons' = update_journey_lessons(user_lessons, user_id,
                                                            next_category, now)
    /\ Len(user_lessons') <= MaxLessons
    /\ report' = NoReport
    /\ UNCHANGED <<now, preferences, assessment_results, sessions>>

\* complete_category_and_move_to_next(user_id, journey_id) for the user's journey
CompleteCategory(user_id) ==
    /\ journeys[user_id].exists
    /\ LET journey == journeys[user_id]
           categories_completed ==
               IF journey.current_category # None
               THEN Append(journey.categories_completed, capitalize(journey.current_category))
               ELSE journey.categories_completed
           completed_count == Len(categories_completed)
       IN /\ journeys' = [journeys EXCEPT ![user_id] =
                [exists |-> TRUE, status |-> JOURNEY_COMPLETED, current_category |-> None,
                 categories_completed |-> categories_completed]]
          /\ assessment_results' =
                IF completed_count >= Len(categories(user_id))
                THEN assessment_results
                ELSE [assessment_results EXCEPT
                         ![user_id].growth_focus = categories(user_id)[completed_count + 1]]
    /\ report' = NoReport
    /\ UNCHANGED <<now, preferences, user_lessons, sessions>>

----------------------------------------------------------------------------
(* SchedulerService: the reminder job *)

\* target_hours: each supported timezone's hour and the hour two hours before it
reminder_target_hours(t) ==
    UNION {{get_current_hour_in_timezone(t, TimezoneCodes[k]),
            (get_current_hour_in_timezone(t, TimezoneCodes[k]) - 2) % HoursPerDay} :
           k \in DOMAIN TimezoneCodes}

\* the candidate query without the filter on reminder_enabled
reminder_candidates_by_type(t, prefs) ==
    {u \in DOMAIN prefs :
        /\ prefs[u].reminder_type # "0"
        /\ \E hour \in reminder_target_hours(t) :
              like_prefix(prefs[u].reminder_time, hour_prefix(hour))}

\* query(UserPreferences).filter(reminder_enabled == "true", reminder_type != "0",
\*                               or_(reminder_time LIKE 'HH:%' ...))
reminder_candidates(t, prefs) ==
    {u \in DOMAIN prefs :
        /\ prefs[u].reminder_enabled = "true"
        /\ prefs[u].reminder_type # "0"
        /\ \E hour \in reminder_target_hours(t) :
              like_prefix(prefs[u].reminder_time, hour_prefix(hour))}

\* should_send with the two hours of reminder_type "2" for reminder_type "1" as well
should_send_twice(t, p) ==
    /\ p.reminder_type \in {"1", "2"}
    /\ \/ get_current_hour_in_timezone(t, p.timezone) = hour_of(p.reminder_time)
       \/ get_current_hour_in_timezone(t, p.timezone) =
             (hour_of(p.reminder_time) + 2) % HoursPerDay

\* should_send with the second hour of reminder_type "2" not wrapped at midnight
should_send_unwrapped(t, p) ==
    CASE p.reminder_type = "1" ->
            get_current_hour_in_timezone(t, p.timezone) = hour_of(p.reminder_time)
      [] p.reminder_type = "2" ->
            \/ get_current_hour_in_timezone(t, p.timezone) = hour_of(p.reminder_time)
            \/ get_current_hour_in_timezone(t, p.timezone) = hour_of(p.reminder_time) + 2
      [] OTHER -> FALSE

\* should_send without the second hour of reminder_type "2"
should_send_once(t, p) ==
    /\ p.reminder_type \in {"1", "2"}
    /\ get_current_hour_in_timezone(t, p.timezone) = hour_of(p.reminder_time)

\* should_send
should_send(t, p) ==
    LET user_current_hour == get_current_hour_in_timezone(t, p.timezone)
        reminder_hour == hour_of(p.reminder_time)
        second_reminder_hour == (reminder_hour + 2) % HoursPerDay
    IN CASE p.reminder_type = "1" -> user_current_hour = reminder_hour
         [] p.reminder_type = "2" ->
               user_current_hour = reminder_hour \/ user_current_hour = second_reminder_hour
         [] OTHER -> FALSE

\* query(UserLesson).filter(user_id, status == AVAILABLE).count()
available_lessons(rows, user_id) ==
    Cardinality({i \in RowIds(rows) : rows[i].user_id = user_id /\ rows[i].status = AVAILABLE})

\* the checks of one iteration without the check of the active days
reminder_due_any_day(t, p, rows, user_id) ==
    /\ should_send(t, p)
    /\ available_lessons(rows, user_id) # 0

\* the checks of one iteration without the count of available lessons
reminder_due_uncounted(t, p, rows, user_id) ==
    /\ should_send(t, p)
    /\ current_day_in_timezone(t, p.timezone) \in p.active_days

\* the checks of one iteration of the loop over the candidates
reminder_due(t, p, rows, user_id) ==
    /\ should_send(t, p)
    /\ current_day_in_timezone(t, p.timezone) \in p.active_days
    /\ available_lessons(rows, user_id) # 0

\* what the SMS gateway does with a message: sms_service.send_sms returns True
\* or False, or an exception is raised on the way
GatewayOutcomes == {"sent", "false", "raised"}

\* _send_notification without its try/except: an exception reaches the caller
send_notification_uncaught(outcome) ==
    IF outcome = "raised" THEN "raised" ELSE "returned"

\* _send_notification as its caller sees it: a failure of the gateway is logged
\* and the call returns
send_notification(outcome) ==
    CASE outcome = "sent" -> "returned"
      [] outcome = "false" -> "returned"
      [] outcome = "raised" -> "returned"

\* the calls of _send_notification the job makes, in the order of the candidates,
\* up to the first call that raises
RECURSIVE notifications(_, _, _, _, _)
notifications(t, prefs, rows, candidates, gateway) ==
    IF candidates = <<>> THEN <<>>
    ELSE LET user_id == Head(candidates)
             p == prefs[user_id]
         IN IF reminder_due(t, p, rows, user_id)
            THEN << [user_id |-> user_id,
                     available_lessons |-> available_lessons(rows, user_id),
                     reminder_type |-> p.reminder_type,
                     is_followup |->
                         get_current_hour_in_timezone(t, p.timezone) # hour_of(p.reminder_time),
                     outcome |-> gateway[user_id]] >>
                 \o (IF send_notification(gateway[user_id]) = "raised"
                     THEN <<>>
                     ELSE notifications(t, prefs, rows, Tail(candidates), gateway))
            ELSE notifications(t, prefs, rows, Tail(candidates), gateway)

send_daily_reminders(t, prefs, rows, gateway) ==
    notifications(t, prefs, rows, ascending(reminder_candidates(t, prefs)), gateway)

\* send_daily_reminders, run from start to end, for every behaviour of the gateway
\* towards the users the job calls it for: sent_count counts the calls that
\* returned, and an exception that reaches the loop ends the job
RunReminderJob ==
    /\ \E gateway \in [{u \in reminder_candidates(now, preferences) :
                            reminder_due(now, preferences[u], user_lessons, u)}
                        -> GatewayOutcomes] :
          LET calls == send_daily_reminders(now, preferences, user_lessons, gateway)
              returned == {k \in DOMAIN calls : send_notification(calls[k].outcome) = "returned"}
          IN report' = [job |-> "send_daily_reminders", unlocked |-> {}, calls |-> calls,
                        count |-> Cardinality(returned),
                        error |-> IF returned = DOMAIN calls THEN "none" ELSE "exception"]
    /\ UNCHANGED <<now, preferences, assessment_results, journeys, user_lessons, sessions>>

\* send_daily_reminders, up to the loop: the invocation takes the first free
\* instance slot and selects its candidates
ReminderJobBegin(s) ==
    /\ sessions[s].pc = "idle"
    /\ \A r \in DOMAIN sessions : r < s => sessions[r].pc # "idle"
    /\ sessions' = [sessions EXCEPT ![s] =
          [pc |-> "reminding",
           todo |-> ascending(reminder_candidates(now, preferences)),
           dirty |-> {},
           calls |-> <<>>]]
    /\ report' = NoReport
    /\ UNCHANGED <<now, preferences, assessment_results, journeys, user_lessons>>

\* the call of _send_notification for a candidate that passed the checks
notification(t, p, rows, user_id, outcome) ==
    [user_id |-> user_id,
     available_lessons |-> available_lessons(rows, user_id),
     reminder_type |-> p.reminder_type,
     is_followup |-> get_current_hour_in_timezone(t, p.timezone) # hour_of(p.reminder_time),
     outcome |-> outcome]

\* one iteration of the loop that skips a candidate another running invocation
\* has already called the gateway for
remind_user_once(ss, s, t, prefs, rows, outcome) ==
    LET user_id == Head(ss[s].todo)
        called == \E r \in DOMAIN ss :
                     /\ r # s
                     /\ ss[r].pc = "reminding"
                     /\ \E k \in DOMAIN ss[r].calls : ss[r].calls[k].user_id = user_id
    IN [ss EXCEPT ![s].todo = Tail(ss[s].todo),
                  ![s].calls =
                      IF reminder_due(t, prefs[user_id], rows, user_id) /\ ~called
                      THEN Append(ss[s].calls,
                                  notification(t, prefs[user_id], rows, user_id, outcome))
                      ELSE ss[s].calls]

\* one iteration of the loop over the candidates in the invocation s: the checks,
\* then the call of the gateway
remind_user(ss, s, t, prefs, rows, outcome) ==
    LET user_id == Head(ss[s].todo)
    IN [ss EXCEPT ![s].todo = Tail(ss[s].todo),
                  ![s].calls =
                      IF reminder_due(t, prefs[user_id], rows, user_id)
                      THEN Append(ss[s].calls,
                                  notification(t, prefs[user_id], rows, user_id, outcome))
                      ELSE ss[s].calls]

ReminderJobUser(s) ==
    /\ sessions[s].pc = "reminding"
    /\ sessions[s].todo # <<>>
    /\ \E outcome \in GatewayOutcomes :
          /\ send_notification(outcome) = "returned"
          /\ sessions' = remind_user(sessions, s, now, preferences, user_lessons, outcome)
    /\ report' = NoReport
    /\ UNCHANGED <<now, preferences, assessment_results, journeys, user_lessons>>

\* return sent_count after the loop
ReminderJobEnd(s) ==
    /\ sessions[s].pc = "reminding"
    /\ sessions[s].todo = <<>>
    /\ sessions' = [sessions EXCEPT ![s] = IdleSession]
    /\ report' = [job |-> "send_daily_reminders", unlocked |-> {},
                  calls |-> sessions[s].calls, count |-> Len(sessions[s].calls),
                  error |-> "none"]
    /\ UNCHANGED <<now, preferences, assessment_results, journeys, user_lessons>>

----------------------------------------------------------------------------
(* The clock *)

\* the instants Spec observes: Monday 08:00 UTC (14:00 in Bangladesh), Monday
\* 10:00 UTC and Tuesday 08:00 UTC
Instants == {8, 10, 32}

AdvanceClock ==
    /\ \E t \in Instants : t > now /\ now' = t
    /\ report' = NoReport
    /\ UNCHANGED <<preferences, assessment_results, journeys, user_lessons, sessions>>

AdvanceHour ==
    /\ now < MaxNow
    /\ now' = now + 1
    /\ report' = NoReport
    /\ UNCHANGED <<preferences, assessment_results, journeys, user_lessons, sessions>>

\* unlock_due_lessons as one step: the hourly job with no overlapping operation
RunUnlockJob ==
    /\ user_lessons' = unlock_due_lessons(now, preferences, journeys, user_lessons)
    /\ report' = UnlockReport(unlock_plan(now, user_lessons, journeys,
                      get_users_for_current_hour(now, preferences, user_lessons)))
    /\ UNCHANGED <<now, preferences, assessment_results, journeys, sessions>>

\* daily_reminder_job: service.send_daily_reminders() calls a coroutine function
\* without await, which makes a coroutine object and runs none of its body: the
\* calls of the gateway the job makes
daily_reminder_job(t, prefs, rows) == <<>>

\* the jobs start_scheduler registers, at the next full hour (the scheduler's
\* clock taken as UTC): hourly_lesson_unlock at every hour, daily_reminder at the
\* hour ReminderCronHour
SchedulerTick ==
    /\ now < MaxNow
    /\ now' = now + 1
    /\ user_lessons' = unlock_due_lessons(now', preferences, journeys, user_lessons)
    /\ LET unlocked == unlock_plan(now', user_lessons, journeys,
                           get_users_for_current_hour(now', preferences, user_lessons))
           calls == IF now' % HoursPerDay = ReminderCronHour
                    THEN daily_reminder_job(now', preferences, user_lessons')
                    ELSE <<>>
       IN report' = [job |-> "start_scheduler", unlocked |-> {d.id : d \in unlocked},
                     calls |-> calls, count |-> Len(calls), error |-> "none"]
    /\ UNCHANGED <<preferences, assessment_results, journeys, sessions>>

\* a user completes a lesson that is open
CompleteOpenLesson(user_id, lesson_id) ==
    /\ lesson_id \in RowIds(user_lessons)
    /\ user_lessons[lesson_id].status = AVAILABLE
    /\ CompleteLesson(user_id, lesson_id)

\* the hours of the weekly clock: Monday 00:00 UTC follows Sunday 23:00 UTC
HoursPerWeek == HoursPerDay * DaysPerWeek

\* the unlock job under the trigger of the reminder job, CronTrigger(hour=9,
\* minute=0): it runs at one hour of the day only
DailyUnlockTick ==
    /\ now' = (now + 1) % HoursPerWeek
    /\ user_lessons' = IF now' % HoursPerDay = ReminderCronHour
                       THEN unlock_due_lessons(now', preferences, journeys, user_lessons)
                       ELSE user_lessons
    /\ report' = UnlockReport(
                    IF now' % HoursPerDay = ReminderCronHour
                    THEN unlock_plan(now', user_lessons, journeys,
                             get_users_for_current_hour(now', preferences, user_lessons))
                    ELSE {})
    /\ UNCHANGED <<preferences, assessment_results, journeys, sessions>>

\* hourly_lesson_unlock under CronTrigger(minute=0): at every full hour of the
\* weekly clock the job runs from start to commit
HourlyUnlockTick ==
    /\ now' = (now + 1) % HoursPerWeek
    /\ user_lessons' = unlock_due_lessons(now', preferences, journeys, user_lessons)
    /\ report' = UnlockReport(unlock_plan(now', user_lessons, journeys,
                      get_users_for_current_hour(now', preferences, user_lessons)))
    /\ UNCHANGED <<preferences, assessment_results, journeys, sessions>>

\* the day of the week (0 is Monday, UTC) on which the learner uses the platform
StudyDates == {2}

\* the learner completes an open lesson, at any hour of a study day
Study(user_id, lesson_id) ==
    /\ date_of(now) \in StudyDates
    /\ CompleteOpenLesson(user_id, lesson_id)

----------------------------------------------------------------------------
(* Specifications *)

\* the overlapping runs of the unlock job the model follows (max_instances allows 3)
Sessions == {1, 2}

Time(hh, mm) == hour_prefix(hh) \o <<Digits[(mm \div 10) + 1], Digits[(mm % 10) + 1]>>

AllDays == {"mon", "tue", "wed", "thu", "fri", "sat", "sun"}

\* a user in Bangladesh time, lessons at 14:00, reminders at 14:00 and 16:00
ScenarioPreferences ==
    [timezone |-> "BDT",
     active_days |-> AllDays,
     lesson_time |-> Time(14, 0),
     reminder_enabled |-> "true",
     reminder_time |-> Time(14, 0),
     reminder_type |-> "2"]

InitTables ==
    /\ journeys = [u \in Users |-> NoJourney]
    /\ assessment_results = [u \in Users |-> [growth_focus |-> growth_focus[u]]]
    /\ user_lessons = <<>>
    /\ sessions = [s \in Sessions |-> IdleSession]
    /\ report = NoReport

(* Spec: the lesson state machine of one user under overlapping unlock jobs, at
   the user's lesson hour on two days and two hours after it *)

Init ==
    /\ now = 8
    /\ preferences = [u \in Users |-> ScenarioPreferences]
    /\ InitTables

\* the users who take lessons in Spec (the other user only has preferences)
Learners == {1}

Next ==
    \/ AdvanceClock
    \/ \E u \in Learners : StartJourney(u)
    \/ \E s \in Sessions : UnlockJobBegin(s)
    \/ \E s \in Sessions : UnlockJobUser(s)
    \/ \E s \in Sessions : UnlockJobCommit(s)
    \/ \E s \in Sessions : UnlockJobRollback(s)
    \/ \E u \in Learners : \E i \in RowIds(user_lessons) : CompleteLesson(u, i)
    \/ \E u \in Learners : \E i \in RowIds(user_lessons) : UnlockLessonManually(u, i)
    \/ UnlockDue

Spec == Init /\ [][Next]_vars

(* SpecHourly: one unlock job and one reminder job at a time, every hour from
   Monday 00:00 UTC, for every choice of the first user's preferences *)

LessonPreferenceChoices ==
    {[ScenarioPreferences EXCEPT !.timezone = tz, !.lesson_time = lt, !.active_days = ad] :
        tz \in {"ET", "BDT", "UTC"},
        lt \in {Time(9, 0), Time(14, 0), Time(23, 0), <<"9", ":", "0", "0">>},
        ad \in {{"mon"}, {"tue"}, {"sun", "mon"}}}

InitHourly ==
    /\ now = 0
    /\ \E p \in LessonPreferenceChoices :
          preferences = [u \in Users |-> IF u = 1 THEN p ELSE ScenarioPreferences]
    /\ InitTables

NextHourly ==
    \/ AdvanceHour
    \/ \E u \in Users : StartJourney(u)
    \/ \E u \in Users : \E i \in RowIds(user_lessons) : CompleteOpenLesson(u, i)
    \/ RunUnlockJob
    \/ RunReminderJob
    \/ UnlockDue

SpecHourly == InitHourly /\ [][NextHourly]_vars

(* SpecReminders: the same hourly clock, for every choice of the first user's
   reminder preferences *)

ReminderPreferenceChoices ==
    {[ScenarioPreferences EXCEPT !.timezone = tz, !.active_days = ad, !.reminder_enabled = en,
                                 !.reminder_type = ty, !.reminder_time = rt] :
        tz \in {"ET", "BDT", "UTC"},
        ad \in {AllDays, {"tue"}},
        en \in {"true", "false"},
        ty \in {"0", "1", "2"},
        rt \in {Time(14, 0), Time(23, 0)}}

InitReminders ==
    /\ now = 0
    /\ \E p \in ReminderPreferenceChoices :
          preferences = [u \in Users |-> IF u = 1 THEN p ELSE ScenarioPreferences]
    /\ InitTables

SpecReminders == InitReminders /\ [][NextHourly]_vars

(* SpecRequests: the requests of the lesson API with their error answers, one
   unlock job at a time, at the instants of Spec *)

\* the points a completion request may carry
PointsChoices == {-1, MaxPoints, MaxPoints + 1}

\* the ids a request may name: every row and one id that no row has
LessonIdChoices == 1..(Len(user_lessons) + 1)

NextRequests ==
    \/ AdvanceClock
    \/ \E u \in Learners : StartJourney(u)
    \/ RunUnlockJob
    \/ \E u \in Users : \E i \in LessonIdChoices : \E pts \in PointsChoices :
          CompleteLessonRequest(u, i, pts)
    \/ \E u \in Users : \E i \in LessonIdChoices : UnlockLessonManuallyRequest(u, i)
    \/ UnlockDueRequest

SpecRequests == Init /\ [][NextRequests]_vars

(* SpecJourneys: the journeys of two users through their categories, with the
   completion of lessons, within one hour *)

NextJourneys ==
    \/ \E u \in Users : StartJourney(u)
    \/ \E u \in Users : CompleteCategory(u)
    \/ \E u \in Users : \E i \in RowIds(user_lessons) : CompleteLesson(u, i)

SpecJourneys == Init /\ [][NextJourneys]_vars

(* SpecCategoryReminders: one learner who goes through the categories and
   completes the lessons that are open, with the reminder job, within the
   learner's reminder hour *)

NextCategoryReminders ==
    \/ \E u \in Learners : StartJourney(u)
    \/ \E u \in Learners : CompleteCategory(u)
    \/ \E u \in Learners : \E i \in RowIds(user_lessons) :
          user_lessons[i].status = AVAILABLE /\ CompleteLessonRequest(u, i, MaxPoints)
    \/ RunReminderJob

SpecCategoryReminders == Init /\ [][NextCategoryReminders]_vars

(* SpecCategoryUnlocks: a learner who leaves the first category for the second,
   with the unlock job and the due-unlock endpoint, at the instants of Spec *)

NextCategoryUnlocks ==
    \/ AdvanceClock
    \/ \E u \in Learners : StartJourney(u)
    \/ \E u \in Learners :
          journeys[u].categories_completed = <<>> /\ CompleteCategory(u)
    \/ \E u \in Learners : \E i \in RowIds(user_lessons) :
          user_lessons[i].status = AVAILABLE /\ CompleteLessonRequest(u, i, MaxPoints)
    \/ RunUnlockJob
    \/ UnlockDueRequest

SpecCategoryUnlocks == Init /\ [][NextCategoryUnlocks]_vars

(* SpecOverlappingReminders: one learner, and invocations of the reminder job
   that overlap, at the instants of Spec *)

NextOverlappingReminders ==
    \/ AdvanceClock
    \/ \E u \in Learners : StartJourney(u)
    \/ \E u \in Learners : \E i \in RowIds(user_lessons) : CompleteOpenLesson(u, i)
    \/ \E s \in Sessions : ReminderJobBegin(s)
    \/ \E s \in Sessions : ReminderJobUser(s)
    \/ \E s \in Sessions : ReminderJobEnd(s)

SpecOverlappingReminders == Init /\ [][NextOverlappingReminders]_vars

(* SpecScheduler: the jobs as start_scheduler runs them, hour by hour from
   Monday 00:00 UTC, for every choice of the first user's reminder preferences *)

NextScheduler ==
    \/ SchedulerTick
    \/ \E u \in Users : StartJourney(u)
    \/ \E u \in Users : \E i \in RowIds(user_lessons) : CompleteOpenLesson(u, i)

SpecScheduler == InitReminders /\ [][NextScheduler]_vars

(* SpecCandidates: the reminder job on the hourly clock, for every choice of
   the first user's timezone, reminder type and reminder time, the times with a
   one-digit hour among them (the column is a free string of five characters) *)

CandidatePreferenceChoices ==
    {[ScenarioPreferences EXCEPT !.timezone = tz, !.reminder_type = ty,
                                 !.reminder_time = rt] :
        tz \in {"ET", "BDT", "UTC"},
        ty \in {"0", "1", "2"},
        rt \in {Time(14, 0), Time(23, 0), <<"9", ":", "0", "0">>}}

InitCandidates ==
    /\ now = 0
    /\ \E p \in CandidatePreferenceChoices :
          preferences = [u \in Users |-> IF u = 1 THEN p ELSE ScenarioPreferences]
    /\ InitTables

NextCandidates ==
    \/ AdvanceHour
    \/ \E u \in Learners : StartJourney(u)
    \/ RunReminderJob

SpecCandidates == InitCandidates /\ [][NextCandidates]_vars

(* SpecSettings: the learner's own requests within one hour, the request that
   sets the days between lessons among them, and one unlock job at a time *)

\* the days between lessons a settings request may carry
DaysChoices == {-1, 0, DaysPerWeek + 1}

NextSettings ==
    \/ \E u \in Learners : StartJourney(u)
    \/ RunUnlockJob
    \/ \E u \in Learners : \E i \in RowIds(user_lessons) :
          CompleteLessonRequest(u, i, MaxPoints)
    \/ \E u \in Learners : \E i \in RowIds(user_lessons) :
          UnlockLessonManuallyRequest(u, i)
    \/ \E u \in Learners : \E i \in RowIds(user_lessons) : \E days \in DaysChoices :
          UpdateLessonSettingsRequest(u, i, days)
    \/ UnlockDueRequest

SpecSettings == Init /\ [][NextSettings]_vars

(* SpecProgress: one learner on the weekly clock, with the unlock job at every
   hour, for every choice of the learner's timezone, lesson time and active
   days; the learner starts the journey and completes open lessons on the study
   days. The timestamps of this specification are days of the week.
   The fairness: the scheduler fires the hourly job at every hour, and the
   learner completes an open lesson on some study day *)

ProgressPreferenceChoices ==
    {[ScenarioPreferences EXCEPT !.timezone = tz, !.lesson_time = lt, !.active_days = ad] :
        tz \in {"ET", "BDT", "UTC"},
        lt \in {Time(9, 0), Time(23, 0)},
        ad \in {{"mon"}, {"tue", "sat"}}}

InitProgress ==
    /\ now = 0
    /\ \E p \in ProgressPreferenceChoices :
          preferences = [u \in Users |-> IF u = 1 THEN p ELSE ScenarioPreferences]
    /\ InitTables

NextProgress ==
    \/ HourlyUnlockTick
    \/ \E u \in Learners : date_of(now) \in StudyDates /\ StartJourney(u)
    \/ \E u \in Learners : \E i \in RowIds(user_lessons) : Study(u, i)

\* the scheduler's clock reaches the next full hour; in NextProgress the steps
\* that advance the clock are the steps of HourlyUnlockTick
ClockAdvances == now' = (now + 1) % HoursPerWeek

SpecProgress ==
    /\ InitProgress
    /\ [][NextProgress]_vars
    /\ WF_now(ClockAdvances)
    /\ SF_vars(\E u \in Learners : \E i \in RowIds(user_lessons) : Study(u, i))

----------------------------------------------------------------------------
(* Properties of the lesson state machine *)

Categories == {"Clarity", "Courage"}

StatusRank(status) ==
    CASE status = LOCKED -> 0
      [] status = AVAILABLE -> 1
      [] status = COMPLETED -> 2

\* the rows of a user's category in template order, as statuses
StatusesInOrder(user_id, category) ==
    LET ids == lessons_of_category(user_lessons, user_id, category)
    IN [k \in DOMAIN ids |-> user_lessons[ids[k]].status]

\* C1: in every reachable state, for every user and category, the Available and
\* Completed instances form a prefix of the template order: no instance is
\* Available or Completed while an earlier one of the category is Locked.
C1_OrderingInvariant ==
    \A u \in Users : \A c \in Categories :
        LET st == StatusesInOrder(u, c)
        IN \A j, k \in DOMAIN st : (j < k /\ st[j] = LOCKED) => st[k] = LOCKED

\* C2: no step of any operation lowers the status of an instance
\* (Locked < Available < Completed).
C2_StatusMonotonic ==
    [][\A i \in RowIds(user_lessons) :
          StatusRank(user_lessons'[i].status) >= StatusRank(user_lessons[i].status)]_vars

\* C3: in every reachable state, each user has at most one Available instance in
\* the category the journey is on.
C3_OneLessonOpen ==
    \A u \in Users :
        (journeys[u].exists /\ journeys[u].current_category # None) =>
            Cardinality({i \in RowIds(user_lessons) :
                            /\ user_lessons[i].user_id = u
                            /\ ilike(week_of(user_lessons[i]).topic, journeys[u].current_category)
                            /\ user_lessons[i].status = AVAILABLE}) <= 1

\* C4: the commit of an unlock job writes only rows that are still Locked when it
\* writes (a conditional update); on any other row it affects nothing: it
\* overwrites neither the status nor unlocked_at.
C4_CommitOnlyUnlocksLocked ==
    [][\A s \in Sessions :
          UnlockJobCommit(s) =>
              \A i \in RowIds(user_lessons) :
                  user_lessons[i].status # LOCKED => user_lessons'[i] = user_lessons[i]]_vars

\* the rows of a user that differ between two contents of the table
ChangedRows(before, after, user_id) ==
    {i \in RowIds(before) : before[i].user_id = user_id /\ after[i] # before[i]}

\* C5: from every reachable state with no unlock job under way, one run of the
\* unlock job changes at most one instance per user, and a second run at the
\* same instant changes nothing.
C5_UnlockIdempotent ==
    (\A s \in Sessions : sessions[s].pc = "idle") =>
        LET once == unlock_due_lessons(now, preferences, journeys, user_lessons)
            twice == unlock_due_lessons(now, preferences, journeys, once)
        IN /\ \A u \in Users : Cardinality(ChangedRows(user_lessons, once, u)) <= 1
           /\ twice = once

\* the rule of the claim: the first Locked instance of the current category, if it
\* is the first of the category or its predecessor has status Completed; else 0
RuleNextLesson(user_id) ==
    LET j == journeys[user_id]
        ids == IF j.exists /\ j.status = ACTIVE /\ j.current_category # None
               THEN lessons_of_category(user_lessons, user_id, j.current_category)
               ELSE <<>>
        locked == {k \in DOMAIN ids : user_lessons[ids[k]].status = LOCKED}
        k1 == first(locked)
    IN IF locked = {} THEN 0
       ELSE IF k1 = 1 \/ user_lessons[ids[k1 - 1]].status = COMPLETED THEN ids[k1]
       ELSE 0

\* C7: for every user, the instance the unlock job picks is the first Locked one
\* of the current category provided it has no predecessor or its predecessor is
\* Completed, and none otherwise; so one job unlocks at most one instance per user.
C7_UnlockDecisionRule ==
    /\ \A u \in Users :
          get_next_lesson_to_unlock(user_lessons, journeys, u) = RuleNextLesson(u)
    /\ \A u \in Users :
          Cardinality({d \in unlock_plan(now, user_lessons, journeys,
                             get_users_for_current_hour(now, preferences, user_lessons)) :
                          user_lessons[d.id].user_id = u}) <= 1

----------------------------------------------------------------------------
(* Properties of the hourly jobs *)

SupportedTimezone(tz_code) == tz_code \in {"ET", "CT", "MT", "PT", "BDT"}

\* the local hour and weekday of the instant now: the UTC hour plus the fixed
\* offset of the code, with the carry into the previous or the next day
LocalHour(tz_code) ==
    LET shifted == (now % HoursPerDay) + TIMEZONE_OFFSETS[tz_code]
    IN IF shifted < 0 THEN shifted + HoursPerDay
       ELSE IF shifted >= HoursPerDay THEN shifted - HoursPerDay
       ELSE shifted

LocalWeekday(tz_code) ==
    LET shifted == (now % HoursPerDay) + TIMEZONE_OFFSETS[tz_code]
        carry == IF shifted < 0 THEN DaysPerWeek - 1 ELSE IF shifted >= HoursPerDay THEN 1 ELSE 0
    IN day_mapping[(((now \div HoursPerDay) + carry) % DaysPerWeek) + 1]

HasLesson(user_id, status) ==
    \E i \in RowIds(user_lessons) :
        user_lessons[i].user_id = user_id /\ user_lessons[i].status = status

CallsFor(user_id) == {k \in DOMAIN report.calls : report.calls[k].user_id = user_id}

\* C6: an unlock job changes an instance of a user (with a supported timezone
\* code) only if the hour of the user's lesson_time is the user's local hour and
\* the user's local weekday is one of the active days; and at 08:00 UTC on a
\* Monday a BDT user with lesson_time 14:00, active on Mondays only and with a
\* Locked instance, is among the users the job processes.
C6_TimeGating ==
    /\ report.job = "unlock_due_lessons" =>
          \A i \in report.unlocked :
              LET p == preferences[user_lessons[i].user_id]
              IN SupportedTimezone(p.timezone) =>
                    /\ hour_of(p.lesson_time) = LocalHour(p.timezone)
                    /\ LocalWeekday(p.timezone) \in p.active_days
    /\ \A u \in Users :
          ( /\ now = 8
            /\ preferences[u].timezone = "BDT"
            /\ preferences[u].lesson_time = Time(14, 0)
            /\ preferences[u].active_days = {"mon"}
            /\ HasLesson(u, LOCKED) ) =>
                \E k \in DOMAIN get_users_for_current_hour(now, preferences, user_lessons) :
                    get_users_for_current_hour(now, preferences, user_lessons)[k] = u

\* an unlock job at Monday 08:00 UTC has unlocked an instance of a BDT user with
\* lesson_time 14:00 who is active on Mondays only
C6_Witness ==
    /\ report.job = "unlock_due_lessons"
    /\ now = 8
    /\ \E i \in report.unlocked :
          LET p == preferences[user_lessons[i].user_id]
          IN p.timezone = "BDT" /\ p.lesson_time = Time(14, 0) /\ p.active_days = {"mon"}

\* a user whose reminders the claim is about: two reminders a day, reminders
\* enabled, a supported timezone code, today an active day
EscalatingToday(p) ==
    /\ p.reminder_type = "2"
    /\ p.reminder_enabled = "true"
    /\ SupportedTimezone(p.timezone)
    /\ LocalWeekday(p.timezone) \in p.active_days

C9_AutoStop ==
    report.job = "send_daily_reminders" =>
        \A k \in DOMAIN report.calls : HasLesson(report.calls[k].user_id, AVAILABLE)

\* a reminder job has run at the reminder hour of a user who completed the only
\* open instance before, and has not called the gateway for that user
C9_Witness ==
    /\ report.job = "send_daily_reminders"
    /\ \E u \in Users :
          LET p == preferences[u]
          IN /\ p.reminder_enabled = "true"
             /\ p.reminder_type \in {"1", "2"}
             /\ SupportedTimezone(p.timezone)
             /\ LocalHour(p.timezone) = hour_of(p.reminder_time)
             /\ LocalWeekday(p.timezone) \in p.active_days
             /\ HasLesson(u, COMPLETED)
             /\ ~HasLesson(u, AVAILABLE)
             /\ CallsFor(u) = {}

\* C10: a reminder job never calls the gateway for a user whose reminder_type is
\* 0 or whose reminder_enabled is not true.
C10_NoReminderWhenOff ==
    report.job = "send_daily_reminders" =>
        \A k \in DOMAIN report.calls :
            LET p == preferences[report.calls[k].user_id]
            IN p.reminder_type # "0" /\ p.reminder_enabled = "true"

\* a reminder job has run at the reminder hour of a user with reminder_type 0 or
\* reminders disabled, on an active day and with an instance Available
C10_Witness ==
    /\ report.job = "send_daily_reminders"
    /\ \E u \in Users :
          LET p == preferences[u]
          IN /\ (p.reminder_type = "0" \/ p.reminder_enabled = "false")
             /\ SupportedTimezone(p.timezone)
             /\ LocalHour(p.timezone) = hour_of(p.reminder_time)
             /\ LocalWeekday(p.timezone) \in p.active_days
             /\ HasLesson(u, AVAILABLE)
             /\ CallsFor(u) = {}

EscalationHours(p) ==
    {hour_of(p.reminder_time), (hour_of(p.reminder_time) + 2) % HoursPerDay}

C14_UnknownTimezoneFailsClosed ==
    /\ report.job = "unlock_due_lessons" =>
          \A i \in report.unlocked :
              SupportedTimezone(preferences[user_lessons[i].user_id].timezone)
    /\ report.job = "send_daily_reminders" =>
          \A k \in DOMAIN report.calls :
              SupportedTimezone(preferences[report.calls[k].user_id].timezone)

\* the users a reminder job has to call: the candidates that pass the checks
DueForReminder ==
    {u \in reminder_candidates(now, preferences) :
        reminder_due(now, preferences[u], user_lessons, u)}

\* C15: a reminder job never fails, and it calls the gateway for every candidate
\* that is due, whatever the gateway did with the calls for the other candidates
\* (a send that returns false or raises).
C15_ReminderFailureIsolation ==
    report.job = "send_daily_reminders" =>
        /\ report.error = "none"
        /\ \A u \in DueForReminder : CallsFor(u) # {}

\* a reminder job has called the gateway for two users, and the first call raised
C15_Witness ==
    /\ report.job = "send_daily_reminders"
    /\ Len(report.calls) = 2
    /\ report.calls[1].outcome = "raised"
    /\ report.calls[2].user_id # report.calls[1].user_id

\* C16: an unlock job that ends with an exception leaves every row of
\* user_lessons as it was (no status and no unlocked_at of the job is persisted)
\* and leaves nothing pending in its session.
C16_UnlockAllOrNothing ==
    [][(report'.job = "unlock_due_lessons" /\ report'.error = "exception") =>
          /\ user_lessons' = user_lessons
          /\ \A s \in Sessions : sessions[s].pc = "running" /\ sessions'[s].pc = "idle" =>
                sessions'[s] = IdleSession]_vars

\* an unlock job has failed after marking a lesson, and the lesson is still Locked
\* with its predecessor completed: the next job finds it again
C16_Witness ==
    /\ report.job = "unlock_due_lessons"
    /\ report.error = "exception"
    /\ report.count > 0
    /\ \E u \in Users :
          /\ get_next_lesson_to_unlock(user_lessons, journeys, u) # 0
          /\ \E k \in DOMAIN get_users_for_current_hour(now, preferences, user_lessons) :
                get_users_for_current_hour(now, preferences, user_lessons)[k] = u

\* C17: a row goes from Locked to Available only in a step of the unlock job of
\* the scheduler or of the manual unlock: no completion of a lesson and no
\* request to the due-unlock endpoint unlocks a row.
C17_OnlyJobOrManualUnlocks ==
    [][\A i \in RowIds(user_lessons) :
          (user_lessons[i].status = LOCKED /\ user_lessons'[i].status = AVAILABLE) =>
              report'.job \in {"unlock_due_lessons", "unlock_lesson_manually"}]_vars

\* C18: a row becomes Completed only from Available (never from Locked), and a
\* Completed row keeps its status, its points_earned and its completed_at.
C18_CompletedOnlyFromAvailable ==
    [][\A i \in RowIds(user_lessons) :
          /\ (user_lessons[i].status # COMPLETED /\ user_lessons'[i].status = COMPLETED) =>
                user_lessons[i].status = AVAILABLE
          /\ user_lessons[i].status = COMPLETED =>
                /\ user_lessons'[i].status = COMPLETED
                /\ user_lessons'[i].points_earned = user_lessons[i].points_earned
                /\ user_lessons'[i].completed_at = user_lessons[i].completed_at]_vars

\* the rows other than i are the same in both tables
SameButFor(rows, other, i) ==
    /\ Len(other) = Len(rows)
    /\ \A j \in RowIds(rows) : j # i => other[j] = rows[j]

\* C19: at every hour and weekday, unlock_lesson_manually(user, lesson) makes a
\* Locked row of the user Available and touches no other row; for an id that
\* is no row of the user it fails with the 404, for a row that is not Locked it
\* fails with a 400, and a request that fails changes no row.
C19_ManualOverride ==
    [][/\ \A u \in Users : \A i \in LessonIdChoices :
             LET result == unlock_lesson_manually(user_lessons, u, i, now)
                 exists == i \in RowIds(user_lessons) /\ user_lessons[i].user_id = u
             IN CASE exists /\ user_lessons[i].status = LOCKED ->
                        /\ result.error = "none"
                        /\ result.rows[i].status = AVAILABLE
                        /\ SameButFor(user_lessons, result.rows, i)
                  [] exists /\ user_lessons[i].status # LOCKED ->
                        /\ result.error = "400 Lesson is not locked or already unlocked"
                        /\ result.rows = user_lessons
                  [] ~exists ->
                        /\ result.error = "404 Lesson not found"
                        /\ result.rows = user_lessons
       /\ report'.job = "unlock_lesson_manually" =>
             IF report'.error = "none"
             THEN \E i \in RowIds(user_lessons) :
                     /\ user_lessons[i].status = LOCKED
                     /\ user_lessons'[i].status = AVAILABLE
                     /\ SameButFor(user_lessons, user_lessons', i)
             ELSE user_lessons' = user_lessons]_vars

\* a manual unlock has succeeded at an hour that is not the learner's lesson
\* hour, for a lesson whose predecessor is not completed
C19_Witness ==
    /\ report.job = "unlock_lesson_manually"
    /\ report.error = "none"
    /\ \A u \in Users : LocalHour(preferences[u].timezone) # hour_of(preferences[u].lesson_time)
    /\ \E i \in RowIds(user_lessons) :
          /\ user_lessons[i].status = AVAILABLE
          /\ \E j \in RowIds(user_lessons) :
                /\ find_next_lesson(user_lessons, j) = i
                /\ user_lessons[j].status # COMPLETED

\* C20: no user has two rows of user_lessons for the same daily lesson.
C20_OneInstancePerTemplate ==
    \A i, j \in RowIds(user_lessons) :
        (user_lessons[i].user_id = user_lessons[j].user_id /\
         user_lessons[i].daily_lesson_id = user_lessons[j].daily_lesson_id) => i = j

----------------------------------------------------------------------------
(* Properties of the categories *)

\* the category of a row: the topic of the week of its daily lesson
CategoryOf(i) == week_of(user_lessons[i]).topic

\* the row belongs to the category the user's journey is in
InCurrentCategory(i) ==
    LET journey == journeys[user_lessons[i].user_id]
    IN /\ journey.exists
       /\ journey.current_category # None
       /\ lower(CategoryOf(i)) = lower(journey.current_category)

\* the user's Available rows of the category the journey is in
AvailableInCurrentCategory(user_id) ==
    {i \in RowIds(user_lessons) :
        /\ user_lessons[i].user_id = user_id
        /\ user_lessons[i].status = AVAILABLE
        /\ InCurrentCategory(i)}

\* C21: a reminder job calls the gateway only for users with an Available lesson
\* of their current category, and the count it passes is the number of those.
C21_ReminderCountsCurrentCategory ==
    report.job = "send_daily_reminders" =>
        \A k \in DOMAIN report.calls :
            /\ AvailableInCurrentCategory(report.calls[k].user_id) # {}
            /\ report.calls[k].available_lessons =
                  Cardinality(AvailableInCurrentCategory(report.calls[k].user_id))

\* C22: the unlock job, a completion and the due-unlock endpoint make Available
\* only rows of the category the user's journey is in, and the unlock job
\* unlocks nothing for a user without an active journey or without a category.
C22_AutomaticUnlockInCurrentCategory ==
    [][report'.job \in {"unlock_due_lessons", "complete_lesson", "unlock_due"} =>
          \A i \in RowIds(user_lessons) :
              (user_lessons[i].status = LOCKED /\ user_lessons'[i].status = AVAILABLE) =>
                  /\ InCurrentCategory(i)
                  /\ journeys[user_lessons[i].user_id].status = ACTIVE]_vars

----------------------------------------------------------------------------
(* Properties of overlapping reminder jobs *)

\* the invocation s handles a candidate in this step
HandlesCandidate(s) ==
    /\ sessions[s].pc = "reminding"
    /\ sessions[s].todo # <<>>
    /\ sessions'[s].pc = "reminding"
    /\ sessions'[s].todo = Tail(sessions[s].todo)

\* another running invocation has called the gateway for the user with this phase
CalledByOther(s, user_id, is_followup) ==
    \E r \in Sessions \ {s} :
        /\ sessions[r].pc = "reminding"
        /\ \E k \in DOMAIN sessions[r].calls :
              /\ sessions[r].calls[k].user_id = user_id
              /\ sessions[r].calls[k].is_followup = is_followup

\* C23: nothing keeps an invocation of the reminder job from calling the gateway
\* for a user another running invocation has already called it for: a candidate
\* that passes the checks is called again, with the same phase, in the same hour.
C23_NoGuardAgainstOverlap ==
    [][\A s \in Sessions :
          LET user_id == Head(sessions[s].todo)
              followup == LocalHour(preferences[user_id].timezone) #
                              hour_of(preferences[user_id].reminder_time)
          IN (/\ HandlesCandidate(s)
              /\ user_id \in DueForReminder
              /\ CalledByOther(s, user_id, followup)) =>
                 /\ Len(sessions'[s].calls) = Len(sessions[s].calls) + 1
                 /\ sessions'[s].calls[Len(sessions'[s].calls)].user_id = user_id
                 /\ sessions'[s].calls[Len(sessions'[s].calls)].is_followup = followup]_vars

\* two invocations that overlap have both called the gateway for the same user
\* with the same phase, and the clock has not moved since the first call
C23_Witness ==
    \E r, s \in Sessions :
        /\ r # s
        /\ sessions[r].pc = "reminding"
        /\ sessions[s].pc = "reminding"
        /\ \E j \in DOMAIN sessions[r].calls : \E k \in DOMAIN sessions[s].calls :
              /\ sessions[r].calls[j].user_id = sessions[s].calls[k].user_id
              /\ sessions[r].calls[j].is_followup = sessions[s].calls[k].is_followup
              /\ sessions[r].calls[j].is_followup =
                    (LocalHour(preferences[sessions[r].calls[j].user_id].timezone) #
                       hour_of(preferences[sessions[r].calls[j].user_id].reminder_time))
              /\ sessions[r].calls[j].user_id \in DueForReminder

----------------------------------------------------------------------------
(* The frame of the scheduler jobs *)

\* the step leaves every row of user_lessons as it was, but for the named columns
\* of the rows the job reports as unlocked; no row is added or removed
RowsFrame(columns) ==
    /\ Len(user_lessons') = Len(user_lessons)
    /\ \A i \in RowIds(user_lessons) :
          IF i \in report'.unlocked
          THEN \A c \in (DOMAIN user_lessons[i]) \ columns :
                  user_lessons'[i][c] = user_lessons[i][c]
          ELSE user_lessons'[i] = user_lessons[i]

\* the step changes no preference, no journey and no assessment
ReadsOnly ==
    /\ preferences' = preferences
    /\ journeys' = journeys
    /\ assessment_results' = assessment_results

\* C24 as claimed: an unlock job changes nothing but status and unlocked_at of
\* the rows it unlocks, and a reminder job changes no row, preference or journey.
C24_FrameStatusAndUnlockedAt ==
    [][/\ report'.job = "unlock_due_lessons" =>
             RowsFrame({"status", "unlocked_at"}) /\ ReadsOnly
       /\ report'.job = "send_daily_reminders" =>
             user_lessons' = user_lessons /\ ReadsOnly]_vars

\* C24, amended: an unlock job changes nothing but status, unlocked_at and the
\* updated_at stamp of the rows it unlocks, and a reminder job changes no row,
\* preference or journey.
C24_Frame ==
    [][/\ report'.job = "unlock_due_lessons" =>
             RowsFrame({"status", "unlocked_at", "updated_at"}) /\ ReadsOnly
       /\ report'.job = "send_daily_reminders" =>
             user_lessons' = user_lessons /\ ReadsOnly]_vars

\* an unlock job has unlocked the lesson of a user who has completed another
\* lesson with points
C24_Witness ==
    /\ report.job = "unlock_due_lessons"
    /\ \E i \in report.unlocked :
          /\ user_lessons[i].status = AVAILABLE
          /\ user_lessons[i].updated_at # NoTime
          /\ \E j \in RowIds(user_lessons) :
                /\ user_lessons[j].user_id = user_lessons[i].user_id
                /\ user_lessons[j].status = COMPLETED
                /\ user_lessons[j].points_earned = MaxPoints

----------------------------------------------------------------------------
(* Properties of the scheduler *)

\* C25: every hourly tick runs the unlock job and then the reminder job, so
\* every user who is due for a reminder at the hour of the tick, with the lessons
\* as the tick's unlock job left them, is called in that tick.
C25_TickUnlocksThenReminds ==
    [][report'.job = "start_scheduler" =>
          \A u \in DueForReminder' :
              \E k \in DOMAIN report'.calls : report'.calls[k].user_id = u]_vars

----------------------------------------------------------------------------
(* Properties of the creation of lessons *)

\* the rows the step has added to user_lessons
Created == {i \in RowIds(user_lessons') : i > Len(user_lessons)}

\* the daily lesson is the first of its week by day_number, in a week with
\* week_number 1
FirstOfFirstWeek(d) ==
    /\ Weeks[DailyLessons[d].week_id].week_number = 1
    /\ \A e \in DOMAIN DailyLessons :
          DailyLessons[e].week_id = DailyLessons[d].week_id =>
              DailyLessons[d].day_number <= DailyLessons[e].day_number

\* C26 as claimed: every row is created Locked with no unlocked_at, the first
\* lesson of the first week included.
C26_CreatedLocked ==
    [][\A i \in Created :
          /\ user_lessons'[i].status = LOCKED
          /\ user_lessons'[i].unlocked_at = NoTime]_vars

\* C26, amended: every row is created Locked with no unlocked_at, except the
\* first lesson of a week with week_number 1, which is created Available with
\* unlocked_at set to the time of the creation; no row is created Completed.
C26_CreatedLockedButFirst ==
    [][\A i \in Created :
          IF FirstOfFirstWeek(user_lessons'[i].daily_lesson_id)
          THEN /\ user_lessons'[i].status = AVAILABLE
               /\ user_lessons'[i].unlocked_at = date_of(now)
               /\ user_lessons'[i].completed_at = NoTime
          ELSE /\ user_lessons'[i].status = LOCKED
               /\ user_lessons'[i].unlocked_at = NoTime
               /\ user_lessons'[i].completed_at = NoTime]_vars

\* a category with two weeks has been materialized: the first lesson of week 1
\* is Available, the first lesson of week 2 is Locked
C26_Witness ==
    \E i, j \in RowIds(user_lessons) :
        /\ user_lessons[i].user_id = user_lessons[j].user_id
        /\ week_of(user_lessons[i]).topic = week_of(user_lessons[j]).topic
        /\ week_of(user_lessons[i]).week_number = 1
        /\ week_of(user_lessons[j]).week_number = 2
        /\ DailyLessons[user_lessons[i].daily_lesson_id].day_number = 1
        /\ DailyLessons[user_lessons[j].daily_lesson_id].day_number = 1
        /\ user_lessons[i].status = AVAILABLE
        /\ user_lessons[i].unlocked_at # NoTime
        /\ user_lessons[j].status = LOCKED
        /\ user_lessons[j].unlocked_at = NoTime

----------------------------------------------------------------------------
(* Properties of the reminder count *)

\* C27: the count a reminder job returns is the number of its gateway calls
\* that delivered the message; a call that returned false or raised is not
\* counted.
C27_CountIsDelivered ==
    report.job = "send_daily_reminders" =>
        report.count =
            Cardinality({k \in DOMAIN report.calls : report.calls[k].outcome = "sent"})

----------------------------------------------------------------------------
(* Properties of the candidate selection *)

\* the users the rule of the loop fires for at this hour, whoever the candidates
\* are: reminder enabled, type 1 or 2, the own local hour equal to the reminder
\* hour or, for type 2, to the reminder hour plus two
FullScan ==
    {u \in Users :
        LET p == preferences[u]
            user_current_hour == get_current_hour_in_timezone(now, p.timezone)
        IN /\ p.reminder_enabled = "true"
           /\ p.reminder_type \in {"1", "2"}
           /\ \/ user_current_hour = hour_of(p.reminder_time)
              \/ /\ p.reminder_type = "2"
                 /\ user_current_hour = (hour_of(p.reminder_time) + 2) % HoursPerDay}

\* C28: the candidate query never leaves out a user the rule of the loop fires
\* for, at any hour and for any stored timezone: the hour of the user's
\* reminder_time is among the target hours and the user is a candidate.
C28_CandidatesCoverFullScan ==
    \A u \in FullScan :
        /\ hour_of(preferences[u].reminder_time) \in reminder_target_hours(now)
        /\ u \in reminder_candidates(now, preferences)

----------------------------------------------------------------------------
(* Properties of completed_at *)

\* C29: a row has completed_at set exactly if its status is Completed.
C29_CompletedAtIffCompleted ==
    \A i \in RowIds(user_lessons) :
        (user_lessons[i].completed_at # NoTime) <=> (user_lessons[i].status = COMPLETED)

----------------------------------------------------------------------------
(* Progress of the unlock job *)

\* the rows of the user that a step takes from Locked to Available
UnlockedByStep(user_id) ==
    {i \in RowIds(user_lessons) :
        /\ user_lessons[i].user_id = user_id
        /\ user_lessons[i].status = LOCKED
        /\ user_lessons'[i].status = AVAILABLE}

\* no row of the user's current category that comes before row i in the order
\* of the templates is Locked
FirstLockedOfCategory(i) ==
    LET u == user_lessons[i].user_id
        lessons == lessons_of_category(user_lessons, u, journeys[u].current_category)
    IN \A k, l \in DOMAIN lessons :
          (k < l /\ lessons[l] = i) => user_lessons[lessons[k]].status # LOCKED

\* C30: with the unlock job at every hour, a well-formed lesson time, active
\* days that are not empty and every open lesson completed in the end, every
\* Locked row of the category of an active journey becomes Available in the end;
\* a step unlocks at most one row of a user, the first Locked one in the order
\* of the templates.
C30_Progress ==
    /\ \A i \in 1..MaxLessons :
          (/\ i \in RowIds(user_lessons)
           /\ journeys[user_lessons[i].user_id].status = ACTIVE
           /\ InCurrentCategory(i)
           /\ user_lessons[i].status = LOCKED)
             ~> (i \in RowIds(user_lessons) /\ user_lessons[i].status = AVAILABLE)
    /\ [][\A u \in Users :
            /\ Cardinality(UnlockedByStep(u)) <= 1
            /\ \A i \in UnlockedByStep(u) :
                  InCurrentCategory(i) /\ FirstLockedOfCategory(i)]_vars

\* the unlock job has just unlocked the last row of the category, and no row of
\* the category is Locked any more
C30_Witness ==
    /\ report.job = "unlock_due_lessons"
    /\ \E i \in RowIds(user_lessons) :
          /\ report.unlocked = {i}
          /\ InCurrentCategory(i)
          /\ user_lessons[i].status = AVAILABLE
          /\ \A j \in RowIds(user_lessons) :
                InCurrentCategory(j) /\ j # i => user_lessons[j].status = COMPLETED
          /\ Cardinality({j \in RowIds(user_lessons) : InCurrentCategory(j)}) = 4

====
